---- MODULE Spec2Model ----
(***************************************************************************)
(* Model of age/src/format/scrypt.rs: the scrypt recipient stanza of the   *)
(* age file format.  Three parts: the work-factor calibrator               *)
(* (target_scrypt_work_factor), the stanza codec (from_stanza and          *)
(* write::recipient_stanza) and the key unwrap (unwrap_file_key).          *)
(*                                                                         *)
(* Text is a sequence of one-character strings, bytes are 0..255.          *)
(* One stanza is in flight at a time: reading a new generic stanza drops   *)
(* the previously parsed one, wrapping a new one drops the wire form.      *)
(***************************************************************************)
EXTENDS Integers, Sequences, FiniteSets, TLC

(* ------------------------------ constants ------------------------------ *)
SCRYPT_RECIPIENT_TAG == "scrypt"
\* b"age-encryption.org/v1/scrypt" as ASCII codes
SCRYPT_SALT_LABEL ==
  << 97, 103, 101, 45, 101, 110, 99, 114, 121, 112, 116, 105, 111, 110, 46,
     111, 114, 103, 47, 118, 49, 47, 115, 99, 114, 121, 112, 116 >>
NANOS_PER_SEC == 1000000000
SALT_LEN == 16
ENCRYPTED_FILE_KEY_BYTES == 32
FILE_KEY_BYTES == 16
PROBE_LOG_N == 10
MAX_LOG_N == 63
FALLBACK_LOG_N == 18
WORK_FACTOR_MARGIN == 4
U8_MOD == 256

\* Bounds of the model
MaxSecs == 2          \* measured probe durations of 1..MaxSecs whole seconds
MaxExtraArgs == 1     \* generic stanzas carry up to 2 + MaxExtraArgs arguments

(* ------------------------------- options ------------------------------- *)
None == [some |-> FALSE]
Some(v) == [some |-> TRUE, val |-> v]
Err == [ok |-> FALSE]
Ok(v) == [ok |-> TRUE, val |-> v]

(* ------------------------------ durations ------------------------------ *)
Duration(s, n) == [secs |-> s, nanos |-> n]
ONE_SECOND == Duration(1, 0)
\* Duration's derived ordering: seconds first, then nanoseconds
DurationLt(a, b) ==
  \/ a.secs < b.secs
  \/ a.secs = b.secs /\ a.nanos < b.nanos
\* d *= 2, with the carry of the nanoseconds into the seconds
DurationDouble(d) ==
  IF 2 * d.nanos >= NANOS_PER_SEC
    THEN Duration(2 * d.secs + 1, 2 * d.nanos - NANOS_PER_SEC)
    ELSE Duration(2 * d.secs, 2 * d.nanos)

(* ----------------------------- calibrator ------------------------------ *)
\* variants of the loop condition: exponent allowed to reach 64; loop
\* continued while the estimate is at most one second
LoopGuardTo64(d, log_n) == DurationLt(d, ONE_SECOND) /\ log_n <= MAX_LOG_N
LoopGuardLeq(d, log_n) == ~DurationLt(ONE_SECOND, d) /\ log_n < MAX_LOG_N

\* while d < ONE_SECOND && log_n < 63 { log_n += 1; d *= 2; }
LoopGuard(d, log_n) == DurationLt(d, ONE_SECOND) /\ log_n < MAX_LOG_N

(* ------------------------------- base64 -------------------------------- *)
Alphabet ==
  << "A","B","C","D","E","F","G","H","I","J","K","L","M","N","O","P",
     "Q","R","S","T","U","V","W","X","Y","Z","a","b","c","d","e","f",
     "g","h","i","j","k","l","m","n","o","p","q","r","s","t","u","v",
     "w","x","y","z","0","1","2","3","4","5","6","7","8","9","+","/" >>
IsB64Char(c) == \E i \in 1..64 : Alphabet[i] = c
Sextet(c) == (CHOOSE i \in 1..64 : Alphabet[i] = c) - 1
B64(v) == Alphabet[v + 1]

\* base64::encode_config(bytes, STANDARD_NO_PAD)
RECURSIVE encode_config(_)
encode_config(b) ==
  IF Len(b) = 0 THEN << >>
  ELSE IF Len(b) = 1 THEN
    << B64(b[1] \div 4), B64((b[1] % 4) * 16) >>
  ELSE IF Len(b) = 2 THEN
    << B64(b[1] \div 4), B64(((b[1] % 4) * 16) + (b[2] \div 16)),
       B64((b[2] % 16) * 4) >>
  ELSE
    << B64(b[1] \div 4), B64(((b[1] % 4) * 16) + (b[2] \div 16)),
       B64(((b[2] % 16) * 4) + (b[3] \div 64)), B64(b[3] % 64) >>
    \o encode_config(SubSeq(b, 4, Len(b)))

\* decoding of a text of alphabet characters, 4 characters to 3 bytes;
\* a trailing group of 2 or 3 characters gives 1 or 2 bytes
RECURSIVE DecodeSextets(_)
DecodeSextets(s) ==
  IF Len(s) < 2 THEN << >>
  ELSE IF Len(s) = 2 THEN
    << (Sextet(s[1]) * 4) + (Sextet(s[2]) \div 16) >>
  ELSE IF Len(s) = 3 THEN
    << (Sextet(s[1]) * 4) + (Sextet(s[2]) \div 16),
       ((Sextet(s[2]) % 16) * 16) + (Sextet(s[3]) \div 4) >>
  ELSE
    << (Sextet(s[1]) * 4) + (Sextet(s[2]) \div 16),
       ((Sextet(s[2]) % 16) * 16) + (Sextet(s[3]) \div 4),
       ((Sextet(s[3]) % 4) * 64) + Sextet(s[4]) >>
    \o DecodeSextets(SubSeq(s, 5, Len(s)))

\* the bits of the last character that belong to no byte must be zero
TrailingBitsZero(s) ==
  IF Len(s) % 4 = 2 THEN Sextet(s[Len(s)]) % 16 = 0
  ELSE IF Len(s) % 4 = 3 THEN Sextet(s[Len(s)]) % 4 = 0
  ELSE TRUE

\* util::read::base64_arg(arg, [0; n]): the text must have the exact
\* unpadded length for n bytes and decode without error
base64_arg(arg, n) ==
  IF Len(arg) # ((4 * n) + 2) \div 3 THEN None
  ELSE IF \E i \in 1..Len(arg) : ~IsB64Char(arg[i]) THEN None
  ELSE IF ~TrailingBitsZero(arg) THEN None
  ELSE Some(DecodeSextets(arg))

(* ------------------------------ decimals ------------------------------- *)
Digits == << "0","1","2","3","4","5","6","7","8","9" >>
IsDigit(c) == \E i \in 1..10 : Digits[i] = c
DigitVal(c) == (CHOOSE i \in 1..10 : Digits[i] = c) - 1

\* format!("{}", n) for a u8
format_u8(n) ==
  IF n < 10 THEN << Digits[n + 1] >>
  ELSE IF n < 100 THEN << Digits[(n \div 10) + 1], Digits[(n % 10) + 1] >>
  ELSE << Digits[(n \div 100) + 1], Digits[((n \div 10) % 10) + 1],
          Digits[(n % 10) + 1] >>

\* the digit loop of from_str_radix: checked_mul(10) then checked_add(digit)
RECURSIVE ParseDigits(_, _)
ParseDigits(s, acc) ==
  IF Len(s) = 0 THEN Ok(acc)
  ELSE IF ~IsDigit(s[1]) THEN Err
  ELSE IF acc * 10 >= U8_MOD THEN Err
  ELSE IF acc * 10 + DigitVal(s[1]) >= U8_MOD THEN Err
  ELSE ParseDigits(Tail(s), acc * 10 + DigitVal(s[1]))

\* u8::from_str_radix(src, 10): empty text is an error, one leading "+" is
\* skipped, a "-" is not a digit of an unsigned type
u8_from_str_radix(src) ==
  IF Len(src) = 0 THEN Err
  ELSE IF src[1] = "+"
    THEN (IF Len(src) = 1 THEN Err ELSE ParseDigits(Tail(src), 0))
    ELSE ParseDigits(src, 0)

(* ------------------------------- codec --------------------------------- *)
AgeStanza(tag, args, body) == [tag |-> tag, args |-> args, body |-> body]
RecipientStanza(salt, log_n, efk) ==
  [salt |-> salt, log_n |-> log_n, encrypted_file_key |-> efk]

\* stanza.args.get(i)
ArgsGet(args, i) == IF i + 1 <= Len(args) THEN Some(args[i + 1]) ELSE None

\* stanza.body[..].try_into().ok() into [u8; 32]
BodyTryInto(body) ==
  IF Len(body) = ENCRYPTED_FILE_KEY_BYTES THEN Some(body) ELSE None

\* the cost argument as from_stanza reads it
ParseLogN(arg) == u8_from_str_radix(arg)

from_stanza(stanza) ==
  IF stanza.tag # SCRYPT_RECIPIENT_TAG THEN None
  ELSE IF ~ArgsGet(stanza.args, 0).some THEN None
  ELSE IF ~base64_arg(ArgsGet(stanza.args, 0).val, SALT_LEN).some THEN None
  ELSE IF ~ArgsGet(stanza.args, 1).some THEN None
  ELSE IF ~ParseLogN(ArgsGet(stanza.args, 1).val).ok THEN None
  ELSE IF ~BodyTryInto(stanza.body).some THEN None
  ELSE Some(RecipientStanza(
         base64_arg(ArgsGet(stanza.args, 0).val, SALT_LEN).val,
         ParseLogN(ArgsGet(stanza.args, 1).val).val,
         BodyTryInto(stanza.body).val))

\* variant: the two arguments written in the other order
recipient_stanza_swapped(r) ==
  AgeStanza(SCRYPT_RECIPIENT_TAG,
            << format_u8(r.log_n), encode_config(r.salt) >>,
            r.encrypted_file_key)

\* write::recipient_stanza: the generic stanza handed to age_stanza
recipient_stanza(r) ==
  AgeStanza(SCRYPT_RECIPIENT_TAG,
            << encode_config(r.salt), format_u8(r.log_n) >>,
            r.encrypted_file_key)

(* ------------------------- external primitives -------------------------- *)
\* A position-sensitive digest of a byte sequence, used by the stand-ins
\* for the key derivation and the AEAD below: the sum of i * (seq[i] + 1).
RECURSIVE MixRange(_, _, _)
MixRange(seq, lo, hi) ==
  IF lo > hi THEN 0
  ELSE IF lo = hi THEN lo * (seq[lo] + 1)
  ELSE MixRange(seq, lo, (lo + hi) \div 2)
         + MixRange(seq, ((lo + hi) \div 2) + 1, hi)
Mix(seq) == (7 + MixRange(seq, 1, Len(seq))) % 65521

KeyFrom(ms, mp, log_n) ==
  [i \in 1..32 |-> ((ms * i) + (mp * (i + 7)) + (log_n * ((2 * i) + 1))) % 256]

scrypt(salt, log_n, passphrase) ==
  IF log_n > MAX_LOG_N THEN Err
  ELSE Ok(KeyFrom(Mix(salt), Mix(passphrase), log_n))

TagFrom(key, m) == [i \in 1..16 |-> (key[16 + i] + (m * i)) % 256]
AeadTag(key, ct) == TagFrom(key, Mix(ct))

\* age_core::primitives::aead_encrypt(key, plaintext): ciphertext ++ tag
aead_encrypt(key, pt) ==
  LET ct == [i \in 1..Len(pt) |-> (pt[i] + key[i]) % 256]
  IN  ct \o AeadTag(key, ct)

\* age_core::primitives::aead_decrypt(key, ciphertext): the plaintext, or
\* an error when the tag does not authenticate
aead_decrypt(key, c) ==
  IF Len(c) < 16 THEN Err
  ELSE LET ct  == SubSeq(c, 1, Len(c) - 16)
           tag == SubSeq(c, Len(c) - 15, Len(c))
       IN  IF tag = AeadTag(key, ct)
             THEN Ok([i \in 1..Len(ct) |-> ((ct[i] - key[i]) + 256) % 256])
             ELSE Err

(* -------------------------------- unwrap -------------------------------- *)
Pending == [kind |-> "Pending"]
ExcessiveWork(required, target) ==
  [kind |-> "ExcessiveWork", required |-> required, target |-> target]
DecryptionFailed == [kind |-> "DecryptionFailed"]
FileKeyResult(file_key) == [kind |-> "Ok", file_key |-> file_key]
Panic == [kind |-> "Panic"]

\* max_work_factor.unwrap_or_else(|| target + 4), a u8 sum
EffectiveCeiling(max_work_factor, target) ==
  IF max_work_factor.some THEN max_work_factor.val
  ELSE (target + WORK_FACTOR_MARGIN) % U8_MOD

\* variants of the bound check: >= for >, one exponent too lenient, absent
ExceedsBoundGeq(log_n, max_work_factor, target) ==
  log_n >= EffectiveCeiling(max_work_factor, target)
ExceedsBoundLenient(log_n, max_work_factor, target) ==
  log_n > EffectiveCeiling(max_work_factor, target) + 1
ExceedsBoundNever(log_n, max_work_factor, target) == FALSE

\* self.log_n > max_work_factor.unwrap_or_else(|| target + 4)
ExceedsBound(log_n, max_work_factor, target) ==
  log_n > EffectiveCeiling(max_work_factor, target)

\* variant: the label left out of the derivation's salt
InnerSaltNoLabel(salt) == salt

\* inner_salt: the label followed by the stanza's salt
InnerSalt(salt) == SCRYPT_SALT_LABEL \o salt

\* variant: required and target exchanged
DeriveErrorSwapped(log_n, target) == ExcessiveWork(target, log_n)

\* the error of a derivation the primitive rejected (map_err)
DeriveError(log_n, target) == ExcessiveWork(log_n, target)

\* variant: a failed decryption reported as "not ours", Ok(None)
DecryptOutcomeNotOurs(dec) ==
  IF dec.ok
    THEN (IF Len(dec.val) = FILE_KEY_BYTES
            THEN FileKeyResult(Some(dec.val)) ELSE Panic)
    ELSE FileKeyResult(None)

\* .map(|pt| { file_key.copy_from_slice(&pt); Some(FileKey(..)) })
\* .map_err(Error::from)
DecryptOutcome(dec) ==
  IF dec.ok
    THEN (IF Len(dec.val) = FILE_KEY_BYTES
            THEN FileKeyResult(Some(dec.val)) ELSE Panic)
    ELSE DecryptionFailed

\* one recorded invocation of the derivation primitive
ScryptCall(salt, log_n, passphrase) ==
  [salt |-> salt, log_n |-> log_n, passphrase |-> passphrase]
ProbeCall == ScryptCall(<< >>, PROBE_LOG_N, << >>)

(* -------------------------------- inputs -------------------------------- *)
Salt0 == [i \in 1..SALT_LEN |-> 0]
Salt1 == [i \in 1..SALT_LEN |-> ((i * 37) + 11) % 256]
Salts == {Salt0, Salt1}
Pass0 == << 112 >>
Pass1 == << 112, 119 >>
Passphrases == {Pass0, Pass1}
Key0 == [i \in 1..FILE_KEY_BYTES |-> 1]
Key1 == [i \in 1..FILE_KEY_BYTES |-> (15 * i) + 3]
FileKeys == {Key0, Key1}
WrapLogNs == {0, 10, 15, 22, 23, 63}
MaxWorkFactors ==
  {None} \cup {Some(m) : m \in {0, 23, 67, 255}}

\* what the two clock reads of the probe can give: a duration, or nothing
\* when the clock went backwards
MeasuredDurations ==
  {Some(Duration(0, n)) :
     n \in {0, 1, 3906249, 3906250, 999999999}}
  \cup {Some(Duration(s, 0)) : s \in 1..MaxSecs}
  \cup {None}

GoodBody ==
  aead_encrypt(scrypt(SCRYPT_SALT_LABEL \o Salt0, 10, Pass0).val, Key0)
BadBody == [GoodBody EXCEPT ![1] = (@ + 1) % 256]
Bodies ==
  {GoodBody, BadBody, << >>, SubSeq(GoodBody, 1, 31), GoodBody \o << 0 >>}

EncSalt0 == encode_config(Salt0)
EncSalt1 == encode_config(Salt1)
SaltArgs ==
  { EncSalt0, EncSalt1, << >>,
    SubSeq(EncSalt1, 1, 21),                     \* one character short
    EncSalt1 \o << "A", "A" >>,                  \* 18 bytes
    EncSalt1 \o << "=", "=" >>,                  \* padded
    [EncSalt1 EXCEPT ![5] = "!"],                \* not in the alphabet
    [EncSalt0 EXCEPT ![22] = "B"] }              \* trailing bits set
CostArgs ==
  { << "1", "0" >>, << "0", "1", "0" >>, << "+", "1", "0" >>, << "+" >>,
    << >>, << "-", "1" >>, << "1", "x" >>, << "x" >>, << "6", "3" >>,
    << "6", "4" >>, << "6", "7" >>, << "6", "8" >>, << "2", "5", "5" >>,
    << "2", "5", "6" >>, << "1", "0", "0", "0" >> }
TenArg == << "1", "0" >>
ExtraArgs(k) == [i \in 1..k |-> << "x" >>]

GenericStanzas ==
  {AgeStanza(t, << EncSalt0, TenArg >>, GoodBody) :
     t \in {"scrypt", "Scrypt", "X25519", ""}}
  \cup {AgeStanza("scrypt", a, GoodBody) : a \in {<< >>, << EncSalt0 >>}}
  \cup {AgeStanza("scrypt", << EncSalt0, TenArg >> \o ExtraArgs(k), GoodBody) :
          k \in 1..MaxExtraArgs}
  \cup {AgeStanza("scrypt", << a, TenArg >>, GoodBody) : a \in SaltArgs}
  \cup {AgeStanza("scrypt", << EncSalt0, c >>, GoodBody) : c \in CostArgs}
  \cup {AgeStanza("scrypt", << EncSalt0, TenArg >>, b) : b \in Bodies}
  \cup {AgeStanza("X25519", << EncSalt0 >>, SubSeq(GoodBody, 1, 31))}

\* the stanza the encrypting side builds for a file key k
Wrap(salt, log_n, p, k) ==
  RecipientStanza(salt, log_n,
                  aead_encrypt(scrypt(SCRYPT_SALT_LABEL \o salt, log_n, p).val,
                               k))
WrappedStanzas ==
  {Wrap(salt, log_n, p, k) :
     salt \in Salts, log_n \in WrapLogNs, p \in Passphrases, k \in FileKeys}

(* -------------------------------- state --------------------------------- *)
VARIABLES
  wire,             \* Option<AgeStanza>: the generic stanza at hand
  origin,           \* Option<RecipientStanza>: what wire was written from
  parsed,           \* "unparsed", "NoMatch" or "Some": from_stanza on wire
  rs,               \* Option<RecipientStanza>: self of unwrap_file_key
  pc,               \* position inside unwrap_file_key
  passphrase,       \* argument of the call
  max_work_factor,  \* argument of the call
  duration,         \* Option<Duration> measured by the calibrator
  d,                \* the calibrator's running estimate
  log_n,            \* the calibrator's running exponent
  iters,            \* iterations of the calibrator's doubling loop
  target,           \* let target = target_scrypt_work_factor()
  scryptCalls,      \* invocations of scrypt during the call, in order
  aeadCalls,        \* number of invocations of aead_decrypt in the call
  enc_key,          \* Option<key>: the derived key
  selfAtCall,       \* the stanza's fields when the call started
  result            \* outcome of the call

codecVars == << wire, origin, parsed, rs >>
calibVars == << duration, d, log_n, iters, target >>
callVars == << pc, passphrase, max_work_factor, calibVars,
               scryptCalls, aeadCalls, enc_key, selfAtCall, result >>
vars == << wire, origin, parsed, rs, pc, passphrase, max_work_factor,
           duration, d, log_n, iters, target, scryptCalls, aeadCalls,
           enc_key, selfAtCall, result >>

NoCall ==
  /\ pc = "idle"
  /\ passphrase = << >>
  /\ max_work_factor = None
  /\ duration = None
  /\ d = Duration(0, 0)
  /\ log_n = 0
  /\ iters = 0
  /\ target = 0
  /\ scryptCalls = << >>
  /\ aeadCalls = 0
  /\ enc_key = None
  /\ selfAtCall = None
  /\ result = Pending

Init ==
  /\ wire = None
  /\ origin = None
  /\ parsed = "unparsed"
  /\ rs = None
  /\ NoCall

(* ----------------------------- codec actions ---------------------------- *)
\* a generic stanza of a header arrives
ReadStanza ==
  /\ pc = "idle"
  /\ \E s \in GenericStanzas : wire' = Some(s)
  /\ origin' = None
  /\ parsed' = "unparsed"
  /\ rs' = None
  /\ UNCHANGED callVars

\* RecipientStanza::from_stanza on the generic stanza at hand
FromStanza ==
  /\ pc = "idle"
  /\ wire.some
  /\ parsed = "unparsed"
  /\ rs' = from_stanza(wire.val)
  /\ parsed' = IF from_stanza(wire.val).some THEN "Some" ELSE "NoMatch"
  /\ UNCHANGED << wire, origin, callVars >>

\* the encrypting side builds a stanza: a file key wrapped under the key
\* derived from a passphrase, a salt and a work factor
WrapFileKey ==
  /\ pc = "idle"
  /\ \E r \in WrappedStanzas : rs' = Some(r)
  /\ wire' = None
  /\ origin' = None
  /\ parsed' = "unparsed"
  /\ UNCHANGED callVars

\* write::recipient_stanza on the stanza at hand
WriteStanza ==
  /\ pc = "idle"
  /\ rs.some
  /\ wire' = Some(recipient_stanza(rs.val))
  /\ origin' = rs
  /\ parsed' = "unparsed"
  /\ rs' = None
  /\ UNCHANGED callVars

(* ------------------------- unwrap_file_key steps ------------------------ *)
\* entry of unwrap_file_key and of target_scrypt_work_factor: log_n = 10;
\* on a platform with a clock the probe derivation runs and is timed,
\* elsewhere nothing is measured
Calibrate ==
  /\ pc = "idle"
  /\ rs.some
  /\ \E p \in Passphrases, m \in MaxWorkFactors, hasClock \in BOOLEAN :
       \E dur \in (IF hasClock THEN MeasuredDurations ELSE {None}) :
         /\ passphrase' = p
         /\ max_work_factor' = m
         /\ duration' = dur
         /\ d' = IF dur.some THEN dur.val ELSE Duration(0, 0)
         /\ scryptCalls' = IF hasClock THEN << ProbeCall >> ELSE << >>
         /\ IF hasClock /\ ~scrypt(<< >>, PROBE_LOG_N, << >>).ok
              THEN result' = Panic /\ pc' = "done"   \* .expect("log_n < 64")
              ELSE result' = Pending /\ pc' = "loop"
  /\ log_n' = PROBE_LOG_N
  /\ iters' = 0
  /\ selfAtCall' = rs
  /\ UNCHANGED << codecVars, target, aeadCalls, enc_key >>

\* one iteration of the loop: log_n += 1; d *= 2
LoopStep ==
  /\ pc = "loop"
  /\ duration.some
  /\ LoopGuard(d, log_n)
  /\ log_n' = log_n + 1
  /\ d' = DurationDouble(d)
  /\ iters' = iters + 1
  /\ UNCHANGED << codecVars, pc, passphrase, max_work_factor, duration,
                  target, scryptCalls, aeadCalls, enc_key, selfAtCall,
                  result >>

\* the calibrator returns: log_n after the loop, or 18 when nothing was
\* measured
CalibrateReturn ==
  /\ pc = "loop"
  /\ duration.some => ~LoopGuard(d, log_n)
  /\ target' = IF duration.some THEN log_n ELSE FALLBACK_LOG_N
  /\ pc' = "bound"
  /\ UNCHANGED << codecVars, passphrase, max_work_factor, duration, d, log_n,
                  iters, scryptCalls, aeadCalls, enc_key, selfAtCall,
                  result >>

\* if self.log_n > ceiling { return Err(ExcessiveWork) }
BoundCheck ==
  /\ pc = "bound"
  /\ IF ExceedsBound(rs.val.log_n, max_work_factor, target)
       THEN /\ result' = ExcessiveWork(rs.val.log_n, target)
            /\ pc' = "done"
       ELSE /\ result' = result
            /\ pc' = "derive"
  /\ UNCHANGED << codecVars, passphrase, max_work_factor, calibVars,
                  scryptCalls, aeadCalls, enc_key, selfAtCall >>

\* let enc_key = scrypt(&inner_salt, self.log_n, passphrase).map_err(..)?
Derive ==
  /\ pc = "derive"
  /\ scryptCalls' = Append(scryptCalls,
                      ScryptCall(InnerSalt(rs.val.salt), rs.val.log_n,
                                 passphrase))
  /\ LET k == scrypt(InnerSalt(rs.val.salt), rs.val.log_n, passphrase)
     IN  IF k.ok
           THEN /\ enc_key' = Some(k.val)
                /\ result' = result
                /\ pc' = "decrypt"
           ELSE /\ enc_key' = None
                /\ result' = DeriveError(rs.val.log_n, target)
                /\ pc' = "done"
  /\ UNCHANGED << codecVars, passphrase, max_work_factor, calibVars,
                  aeadCalls, selfAtCall >>

\* aead_decrypt(&enc_key, &self.encrypted_file_key).map(..).map_err(..)
Decrypt ==
  /\ pc = "decrypt"
  /\ aeadCalls' = aeadCalls + 1
  /\ result' = DecryptOutcome(
                 aead_decrypt(enc_key.val, rs.val.encrypted_file_key))
  /\ pc' = "done"
  /\ UNCHANGED << codecVars, passphrase, max_work_factor, calibVars,
                  scryptCalls, enc_key, selfAtCall >>

\* the call has returned; its locals are gone
Return ==
  /\ pc = "done"
  /\ pc' = "idle"
  /\ passphrase' = << >>
  /\ max_work_factor' = None
  /\ duration' = None
  /\ d' = Duration(0, 0)
  /\ log_n' = 0
  /\ iters' = 0
  /\ target' = 0
  /\ scryptCalls' = << >>
  /\ aeadCalls' = 0
  /\ enc_key' = None
  /\ selfAtCall' = None
  /\ result' = Pending
  /\ UNCHANGED codecVars

Next ==
  \/ ReadStanza
  \/ FromStanza
  \/ WrapFileKey
  \/ WriteStanza
  \/ Calibrate
  \/ LoopStep
  \/ CalibrateReturn
  \/ BoundCheck
  \/ Derive
  \/ Decrypt
  \/ Return

Spec == Init /\ [][Next]_vars

(* ------------------------------ properties ------------------------------ *)
\* the invocations of the derivation other than the calibrator's probe
StanzaDerivations == {i \in DOMAIN scryptCalls : scryptCalls[i] # ProbeCall}
\* the ceiling as the contract states it, an exact integer
CeilingOf(max, t) == IF max.some THEN max.val ELSE t + 4
\* the call is past calibration: target is set
InCall == pc \in {"bound", "derive", "decrypt", "done"}

\* C1 (as stated): with no caller ceiling, a stanza whose exponent is
\* above target + 4 fails with the excessive-work error and scrypt is
\* never invoked at any point of the call.
C1_NoScryptAtAll ==
  (InCall /\ ~max_work_factor.some /\ rs.val.log_n > target + 4) =>
     /\ scryptCalls = << >>
     /\ pc = "done" => result = ExcessiveWork(rs.val.log_n, target)

\* C1 (amended): with no caller ceiling, a stanza whose exponent is above
\* target + 4 fails with the excessive-work error, scrypt is never invoked
\* on the stanza's salt, exponent or passphrase and aead_decrypt is never
\* invoked; the only invocation of scrypt in the call is the calibrator's
\* probe at exponent 10 with empty salt and passphrase.
C1_NoStanzaDerivation ==
  (InCall /\ ~max_work_factor.some /\ rs.val.log_n > target + 4) =>
     /\ StanzaDerivations = {}
     /\ Len(scryptCalls) <= 1
     /\ aeadCalls = 0
     /\ pc \in {"bound", "done"}
     /\ pc = "done" => result = ExcessiveWork(rs.val.log_n, target)
C1_Witness ==
  /\ pc = "done"
  /\ ~max_work_factor.some
  /\ rs.val.log_n = target + 5
  /\ result = ExcessiveWork(target + 5, target)
  /\ scryptCalls = << ProbeCall >>

\* C2: the effective ceiling is the caller's max_work_factor when given and
\* target + 4 (exact sum) otherwise; the call goes on to the derivation at
\* the stanza's exponent if and only if the exponent is <= that ceiling.
C2_CeilingSelection ==
  InCall =>
    /\ EffectiveCeiling(max_work_factor, target)
         = CeilingOf(max_work_factor, target)
    /\ pc = "derive" => rs.val.log_n <= CeilingOf(max_work_factor, target)
    /\ pc \in {"decrypt", "done"} =>
         (StanzaDerivations # {}
            <=> rs.val.log_n <= CeilingOf(max_work_factor, target))
C2_Witness ==
  /\ pc = "done"
  /\ ~max_work_factor.some
  /\ rs.val.log_n = target + 4
  /\ StanzaDerivations # {}

\* C3: the calibrator returns a value in 0..63 for every measured duration
\* and on the fallback path.
C3_TargetBelow64 == InCall => target \in 0..63
C3_Witness ==
  /\ pc = "bound"
  /\ duration = Some(Duration(0, 0))
  /\ target = 63

\* C4: if the stanza's wrapped key is the wrapping of a file key K under
\* derive(label ++ salt, E, P), E within 0..63 and within the ceiling, then
\* unwrapping with P returns exactly K.
C4_UnwrapRecovers ==
  (pc = "done" /\ rs.val.log_n <= 63
     /\ rs.val.log_n <= CeilingOf(max_work_factor, target)) =>
    \A k \in FileKeys :
      rs.val = Wrap(rs.val.salt, rs.val.log_n, passphrase, k)
        => result = FileKeyResult(Some(k))
C4_Witness ==
  /\ pc = "done"
  /\ origin.some
  /\ parsed = "Some"
  /\ rs.val = Wrap(Salt1, 22, Pass1, Key1)
  /\ passphrase = Pass1
  /\ result = FileKeyResult(Some(Key1))

\* C5: for a stanza with exponent in 0..63 and within the ceiling, a
\* passphrase under which authenticated decryption fails gives the generic
\* decryption failure: not excessive-work, not a file key, not a crash.
C5_WrongPassphrase ==
  (pc = "done" /\ rs.val.log_n <= 63
     /\ rs.val.log_n <= CeilingOf(max_work_factor, target)
     /\ ~aead_decrypt(
           scrypt(SCRYPT_SALT_LABEL \o rs.val.salt, rs.val.log_n,
                  passphrase).val,
           rs.val.encrypted_file_key).ok)
    => result = DecryptionFailed
C5_Witness ==
  /\ pc = "done"
  /\ result = DecryptionFailed
  /\ \E p \in Passphrases \ {passphrase}, k \in FileKeys :
       rs.val = Wrap(rs.val.salt, rs.val.log_n, p, k)

\* the text is digits only and its value is 64 or more
RECURSIVE DigitsValueCapped(_, _)
DigitsValueCapped(s, acc) ==
  IF Len(s) = 0 THEN acc
  ELSE DigitsValueCapped(Tail(s),
         IF (acc * 10) + DigitVal(s[1]) > 1000 THEN 1000
         ELSE (acc * 10) + DigitVal(s[1]))
Denotes64OrMore(a) ==
  /\ Len(a) >= 1
  /\ \A i \in 1..Len(a) : IsDigit(a[i])
  /\ DigitsValueCapped(a, 0) >= 64

\* C6: a stanza whose cost argument denotes a value >= 64 never yields a
\* file key, whatever the caller's ceiling: either from_stanza gives
\* nothing or unwrap_file_key fails; when the derivation rejects the
\* exponent the error is excessive-work with required = the stanza's
\* exponent and target = the calibrated target.
C6_OutOfRangeRejected ==
  /\ (wire.some /\ parsed = "Some" /\ Denotes64OrMore(wire.val.args[2]))
       => rs.val.log_n >= 64
  /\ (pc = "done" /\ rs.val.log_n >= 64)
       => result = ExcessiveWork(rs.val.log_n, target)
  /\ (pc = "done" /\ StanzaDerivations # {} /\ ~enc_key.some)
       => result = ExcessiveWork(rs.val.log_n, target)
C6_Witness ==
  /\ pc = "done"
  /\ rs.val.log_n = 64
  /\ max_work_factor = Some(255)
  /\ StanzaDerivations # {}
  /\ result = ExcessiveWork(64, target)
  /\ target # 64

\* C7: writing a stanza with exponent in 0..63 and parsing the generic
\* stanza written gives back the same salt, exponent and wrapped key.
C7_RoundTrip ==
  (origin.some /\ origin.val.log_n \in 0..63 /\ parsed # "unparsed") =>
     /\ parsed = "Some"
     /\ rs = origin
C7_Witness ==
  /\ origin.some
  /\ parsed = "Some"
  /\ rs = origin
  /\ origin.val.salt = Salt1
  /\ origin.val.log_n = 23
  /\ wire.val.tag = "scrypt"
  /\ wire.val.args[2] = << "2", "3" >>
  /\ Len(wire.val.args[1]) = 22

\* a base-10 unsigned integer: one or more decimal digits
IsBase10Unsigned(a) == Len(a) >= 1 /\ \A i \in 1..Len(a) : IsDigit(a[i])
\* unpadded base64 of exactly 16 bytes
IsSaltArg(a) ==
  /\ Len(a) = 22
  /\ \A i \in 1..22 : IsB64Char(a[i])
  /\ encode_config(DecodeSextets(a)) = a

\* C8: from_stanza gives nothing for a stanza with another tag, fewer than
\* two arguments, a first argument that is not unpadded base64 of 16
\* bytes, a second argument that is not a base-10 unsigned integer, or a
\* body that is not 32 bytes; when it gives a stanza, the tag is "scrypt"
\* and the fields are the decoded salt, the parsed exponent and the body.
C8_NonMatchSafety ==
  (wire.some /\ parsed # "unparsed") =>
    LET s == wire.val IN
    /\ ( \/ s.tag # "scrypt"
         \/ Len(s.args) < 2
         \/ ~IsSaltArg(s.args[1])
         \/ ~IsBase10Unsigned(s.args[2])
         \/ Len(s.body) # 32 )
         => (parsed = "NoMatch" /\ rs = None)
    /\ parsed = "Some" =>
         /\ s.tag = "scrypt"
         /\ rs.val.salt = DecodeSextets(s.args[1])
         /\ IsBase10Unsigned(s.args[2])
         /\ DigitsValueCapped(s.args[2], 0) = rs.val.log_n
         /\ rs.val.encrypted_file_key = s.body

\* C9: inside one call the derivation at the stanza's exponent starts only
\* after the bound check passed, authenticated decryption only after that
\* derivation succeeded, each at most once; the call ends in a file key,
\* the excessive-work error or the decryption failure; the stanza's fields
\* are not changed by the call.
C9_Ordering ==
  pc # "idle" =>
    /\ StanzaDerivations # {} =>
         rs.val.log_n <= CeilingOf(max_work_factor, target)
    /\ aeadCalls >= 1 => (StanzaDerivations # {} /\ enc_key.some)
    /\ Cardinality(StanzaDerivations) <= 1
    /\ aeadCalls <= 1
    /\ pc = "done" =>
         \/ result.kind = "Ok" /\ result.file_key.some
         \/ result.kind = "ExcessiveWork"
         \/ result = DecryptionFailed
    /\ rs = selfAtCall
C9_Witness ==
  /\ pc = "done"
  /\ result = DecryptionFailed
  /\ aeadCalls = 1
  /\ Len(scryptCalls) = 2
  /\ Cardinality(StanzaDerivations) = 1

\* x * 2^k is at least one second
Reaches(x, k) ==
  \/ x.secs >= 1
  \/ IF k >= 30 THEN x.nanos >= 1
     ELSE x.nanos >= (NANOS_PER_SEC + (2^k) - 1) \div (2^k)
LeastExponent(x) ==
  IF \E e \in 10..63 : Reaches(x, e - 10)
    THEN CHOOSE e \in 10..63 :
           /\ Reaches(x, e - 10)
           /\ \A f \in 10..(e - 1) : ~Reaches(x, f - 10)
    ELSE 63

\* C10: for a measured duration d the doubling loop ends after at most 53
\* iterations and returns the least e in 10..63 with d * 2^(e-10) >= one
\* second, or 63 if there is none; with no duration it returns 18 without
\* looping.
C10_CalibrationResult ==
  /\ iters <= 53
  /\ InCall =>
      IF duration.some
        THEN target = LeastExponent(duration.val)
        ELSE target = 18 /\ iters = 0
C10_Witness ==
  /\ pc = "bound"
  /\ duration = Some(Duration(0, 3906249))
  /\ target = 19
  /\ iters = 9
====
